---- MODULE Spec2Model ----
(***************************************************************************)
(* A model of the my-mcp tool server: the tool registry, the list-tools    *)
(* handler (schema introspection), the call-tool handler (the dispatcher)  *)
(* and the handlers of the tools it dispatches to.                         *)
(*                                                                         *)
(* JSON values are tagged records; a text is the sequence of the pieces    *)
(* that a template literal or a join concatenates.                         *)
(***************************************************************************)
EXTENDS Integers, Sequences, FiniteSets, TLC

(***************************************************************************)
(* Bounds of the model.                                                    *)
(***************************************************************************)
\* Number of call-tool requests the host issues (they may overlap).
MaxCalls == 2

\* Number of list-tools requests the host issues.
MaxLists == 2

\* The operands of the calculator's calls range over -MaxOperand..MaxOperand.
MaxOperand == 2

(***************************************************************************)
(* JSON values.                                                            *)
(***************************************************************************)
Undef == [t |-> "undefined"]

Null == [t |-> "null"]

Str(s) == [t |-> "string", s |-> s]

\* An integer n, or (int = FALSE) the non-integer n + 0.5.
Num(n) == [t |-> "number", n |-> n, int |-> TRUE]

Flt(n) == [t |-> "number", n |-> n, int |-> FALSE]

Arr(a) == [t |-> "array", a |-> a]

Obj(f) == [t |-> "object", f |-> f]

EmptyObj == Obj(<<>>)

\* data[key] of a JavaScript object: undefined when the key is absent.
Get(v, key) == IF key \in DOMAIN v.f THEN v.f[key] ELSE Undef

(***************************************************************************)
(* Texts.                                                                  *)
(***************************************************************************)
RECURSIVE Join(_, _)
\* Array.prototype.join over texts: the parts with sep between neighbours.
Join(parts, sep) ==
  IF parts = <<>> THEN <<>>
  ELSE IF Len(parts) = 1 THEN Head(parts)
  ELSE Head(parts) \o <<sep>> \o Join(Tail(parts), sep)

\* String.prototype.includes on a text: piece occurs in it.
Includes(text, piece) == \E i \in 1..Len(text) : text[i] = piece

\* Whether sub occurs in text as a contiguous run of pieces.
Contains(text, sub) ==
  \E i \in 0..(Len(text) - Len(sub)) :
    \A j \in 1..Len(sub) : text[i + j] = sub[j]

(***************************************************************************)
(* Zod schemas, as the tools declare them.  description is "" when the     *)
(* schema carries none (the list handler reads `description || ""`).       *)
(***************************************************************************)
ZString(min, url, d) ==
  [typeName |-> "ZodString", min |-> min, url |-> url, description |-> d]

ZNumber(int, min, max, d) ==
  [typeName |-> "ZodNumber", int |-> int, min |-> min, max |-> max,
   description |-> d]

\* z.number() without checks.
ZAnyNumber(d) == [typeName |-> "ZodNumber", int |-> FALSE, description |-> d]

ZEnum(values, d) == [typeName |-> "ZodEnum", values |-> values, description |-> d]

ZLiteral(value) == [typeName |-> "ZodLiteral", value |-> value, description |-> ""]

ZOptional(inner, d) ==
  [typeName |-> "ZodOptional", innerType |-> inner, description |-> d]

ZDefault(inner, dflt, d) ==
  [typeName |-> "ZodDefault", innerType |-> inner, defaultValue |-> dflt,
   description |-> d]

\* keys is the declaration order of the shape's fields.
ZObject(keys, shape, d) ==
  [typeName |-> "ZodObject", keys |-> keys, shape |-> shape, description |-> d]

ZArray(element, min, d) ==
  [typeName |-> "ZodArray", element |-> element, min |-> min, description |-> d]

\* z.record(z.unknown())
ZRecordUnknown == [typeName |-> "ZodRecord", description |-> ""]

ZDiscriminatedUnion(discriminator, options) ==
  [typeName |-> "ZodDiscriminatedUnion", discriminator |-> discriminator,
   options |-> options, description |-> ""]

\* The strings `new URL(s)` accepts, among the strings of the model.
ValidUrls == {"https://example.com/a", "https://example.com/b"}

\* The parsed type Zod names in "Expected X, received Y".
ParsedType(v) == v.t

Issue(path, message) == [path |-> path, message |-> message]

\* The invalid_type issue: "Required" for an absent value.
InvalidType(path, expected, v) ==
  IF v.t = "undefined" THEN Issue(path, <<"Required">>)
  ELSE Issue(path, <<"Expected ">> \o expected \o <<", received ", ParsedType(v)>>)

Quoted(values) == Join([i \in 1..Len(values) |-> <<"'", values[i], "'">>], " | ")

RECURSIVE ZodParse(_, _, _)
RECURSIVE ZodParseKeys(_, _, _, _)
RECURSIVE ZodParseItems(_, _, _, _)

(***************************************************************************)
(* schema._parse(value) at path: the issues, every one of them, and the    *)
(* output value (defaults applied, unknown keys stripped).                 *)
(***************************************************************************)
ZodParse(schema, v, path) ==
  CASE schema.typeName = "ZodString" ->
         IF v.t # "string" THEN
           [issues |-> <<InvalidType(path, <<"string">>, v)>>, value |-> Undef]
         ELSE
           [issues |->
              (IF Len(v.s) < schema.min
               THEN <<Issue(path, <<"String must contain at least ",
                                    ToString(schema.min), " character(s)">>)>>
               ELSE <<>>)
              \o (IF schema.url /\ v.s \notin ValidUrls
                  THEN <<Issue(path, <<"Invalid url">>)>> ELSE <<>>),
            value |-> v]
    [] schema.typeName = "ZodNumber" ->
         IF v.t # "number" THEN
           [issues |-> <<InvalidType(path, <<"number">>, v)>>, value |-> Undef]
         ELSE IF "min" \notin DOMAIN schema THEN [issues |-> <<>>, value |-> v]
         ELSE
           [issues |->
              (IF schema.int /\ ~v.int
               THEN <<Issue(path, <<"Expected integer, received float">>)>>
               ELSE <<>>)
              \o (IF v.n < schema.min
                  THEN <<Issue(path, <<"Number must be greater than or equal to ",
                                       ToString(schema.min)>>)>>
                  ELSE <<>>)
              \o (IF v.n > schema.max \/ (v.n = schema.max /\ ~v.int)
                  THEN <<Issue(path, <<"Number must be less than or equal to ",
                                       ToString(schema.max)>>)>>
                  ELSE <<>>),
            value |-> v]
    [] schema.typeName = "ZodEnum" ->
         IF v.t # "string" THEN
           [issues |-> <<InvalidType(path, Quoted(schema.values), v)>>,
            value |-> Undef]
         ELSE IF \A i \in 1..Len(schema.values) : schema.values[i] # v.s THEN
           [issues |-> <<Issue(path, <<"Invalid enum value. Expected ">>
                                     \o Quoted(schema.values)
                                     \o <<", received '", v.s, "'">>)>>,
            value |-> Undef]
         ELSE [issues |-> <<>>, value |-> v]
    [] schema.typeName = "ZodLiteral" ->
         IF v # Str(schema.value) THEN
           [issues |-> <<Issue(path, <<"Invalid literal value, expected \"",
                                       schema.value, "\"">>)>>,
            value |-> Undef]
         ELSE [issues |-> <<>>, value |-> v]
    [] schema.typeName = "ZodOptional" ->
         IF v.t = "undefined" THEN [issues |-> <<>>, value |-> Undef]
         ELSE ZodParse(schema.innerType, v, path)
    [] schema.typeName = "ZodDefault" ->
         ZodParse(schema.innerType,
                  IF v.t = "undefined" THEN schema.defaultValue ELSE v, path)
    [] schema.typeName = "ZodRecord" ->
         IF v.t # "object" THEN
           [issues |-> <<InvalidType(path, <<"object">>, v)>>, value |-> Undef]
         ELSE [issues |-> <<>>, value |-> v]
    [] schema.typeName = "ZodObject" ->
         IF v.t # "object" THEN
           [issues |-> <<InvalidType(path, <<"object">>, v)>>, value |-> Undef]
         ELSE ZodParseKeys(schema, v, path, 1)
    [] schema.typeName = "ZodArray" ->
         IF v.t # "array" THEN
           [issues |-> <<InvalidType(path, <<"array">>, v)>>, value |-> Undef]
         ELSE
           LET items == ZodParseItems(schema, v, path, 1) IN
           [issues |->
              (IF Len(v.a) < schema.min
               THEN <<Issue(path, <<"Array must contain at least ",
                                    ToString(schema.min), " element(s)">>)>>
               ELSE <<>>) \o items.issues,
            value |-> items.value]
    [] schema.typeName = "ZodDiscriminatedUnion" ->
         IF v.t # "object" THEN
           [issues |-> <<InvalidType(path, <<"object">>, v)>>, value |-> Undef]
         ELSE
           LET d == Get(v, schema.discriminator)
               hit == {i \in 1..Len(schema.options) :
                         d = Str(schema.options[i].shape[schema.discriminator].value)}
               names == [i \in 1..Len(schema.options) |->
                           schema.options[i].shape[schema.discriminator].value]
           IN IF hit = {} THEN
                [issues |-> <<Issue(path \o <<schema.discriminator>>,
                                    <<"Invalid discriminator value. Expected ">>
                                    \o Quoted(names))>>,
                 value |-> Undef]
              ELSE ZodParse(schema.options[CHOOSE i \in hit : TRUE], v, path)

\* The fields of an object schema from the i-th on, in declaration order.
ZodParseKeys(schema, v, path, i) ==
  IF i > Len(schema.keys) THEN [issues |-> <<>>, value |-> EmptyObj]
  ELSE
    LET key == schema.keys[i]
        one == ZodParse(schema.shape[key], Get(v, key), path \o <<key>>)
        rest == ZodParseKeys(schema, v, path, i + 1)
    IN [issues |-> one.issues \o rest.issues,
        value |-> IF one.value.t = "undefined" /\ key \notin DOMAIN v.f
                  THEN rest.value
                  ELSE Obj((key :> one.value) @@ rest.value.f)]

\* The elements of an array from the i-th on; an element's path is its index.
ZodParseItems(schema, v, path, i) ==
  IF i > Len(v.a) THEN [issues |-> <<>>, value |-> Arr(<<>>)]
  ELSE
    LET one == ZodParse(schema.element, v.a[i], path \o <<ToString(i - 1)>>)
        rest == ZodParseItems(schema, v, path, i + 1)
    IN [issues |-> one.issues \o rest.issues,
        value |-> Arr(<<one.value>> \o rest.value.a)]

(***************************************************************************)
(* The tool definitions.  id names the definition (and so its handler);    *)
(* name is the dispatch key.                                               *)
(***************************************************************************)
calculatorTool ==
  [id |-> "calculatorTool",
   name |-> "calculate",
   description |-> "Perform basic arithmetic operations (add, subtract, multiply, divide)",
   inputSchema |->
     ZObject(<<"operation", "a", "b">>,
             [operation |-> ZEnum(<<"add", "subtract", "multiply", "divide">>,
                                  "The arithmetic operation to perform"),
              a |-> ZAnyNumber("The first number"),
              b |-> ZAnyNumber("The second number")], "")]

echoTool ==
  [id |-> "echoTool",
   name |-> "echo",
   description |-> "Echo a message back, optionally transforming it to uppercase or lowercase",
   inputSchema |->
     ZObject(<<"message", "transform">>,
             [message |-> ZString(0, FALSE, "The message to echo back"),
              transform |->
                ZDefault(ZOptional(ZEnum(<<"uppercase", "lowercase", "none">>, ""), ""),
                         Str("none"),
                         "Optional text transformation to apply")], "")]

serperTool ==
  [id |-> "serperTool",
   name |-> "non_code_web_search",
   description |-> "Search the web and extract structured data (titles, URLs, snippets) from multiple search results.",
   inputSchema |->
     ZObject(<<"query", "num">>,
             [query |-> ZString(1, FALSE, "Search query"),
              num |-> ZDefault(ZNumber(TRUE, 1, 100, ""), Num(10),
                               "Number of results to return (1-100, default: 10)")],
             "")]

insertSchema ==
  ZObject(<<"command", "table", "records">>,
          [command |-> ZLiteral("insert"),
           table |-> ZString(1, FALSE, "The table name to insert into"),
           records |-> ZArray(ZRecordUnknown, 1, "Array of records to insert")], "")

joinConfigSchema ==
  ZObject(<<"table", "src", "dst">>,
          [table |-> ZString(1, FALSE, "The join table name"),
           src |-> ZString(1, FALSE, "Column name for source foreign key"),
           dst |-> ZString(1, FALSE, "Column name for destination foreign key")], "")

lookupConfigSchema ==
  ZObject(<<"table", "column">>,
          [table |-> ZString(1, FALSE, "The table to look up IDs from"),
           column |-> ZString(1, FALSE, "The column to match values against")], "")

pairSchema ==
  ZObject(<<"src", "dst">>,
          [src |-> ZString(0, FALSE, "Source value to look up"),
           dst |-> ZString(0, FALSE, "Destination value to look up")], "")

\* schema.describe(d): the same schema carrying the description d.
Describe(schema, d) == [schema EXCEPT !.description = d]

insertJoinSchema ==
  ZObject(<<"command", "join", "src", "dst", "pairs">>,
          [command |-> ZLiteral("insert_join"),
           join |-> Describe(joinConfigSchema, "Join table configuration"),
           src |-> Describe(lookupConfigSchema, "Source table lookup configuration"),
           dst |-> Describe(lookupConfigSchema, "Destination table lookup configuration"),
           pairs |-> ZArray(pairSchema, 1, "Array of src/dst value pairs")], "")

inputSchema == ZDiscriminatedUnion("command", <<insertSchema, insertJoinSchema>>)

supabaseBulkTool ==
  [id |-> "supabaseBulkTool",
   name |-> "supabase_bulk",
   description |-> "Perform bulk database operations on Supabase. Supports two commands: insert, insert_join",
   inputSchema |-> inputSchema]

tightWebFetchTool ==
  [id |-> "tightWebFetchTool",
   name |-> "tight_web_fetch",
   description |-> "Extract complete content from a specific URL by fetching and converting HTML to clean markdown.",
   inputSchema |->
     ZObject(<<"url">>,
             [url |-> ZString(0, TRUE, "The URL to fetch and convert to markdown")], "")]

\* The tool the README shows how to add; its handler body is the author's.
yourTool ==
  [id |-> "yourTool",
   name |-> "your_tool_name",
   description |-> "Description of what your tool does",
   inputSchema |->
     ZObject(<<"param1", "param2">>,
             [param1 |-> ZString(0, FALSE, "Description of parameter 1"),
              param2 |-> ZOptional(ZAnyNumber(""), "Optional parameter 2")], "")]

\* The registry the server is built with.
ToolRegistry == <<serperTool, supabaseBulkTool, tightWebFetchTool>>

(***************************************************************************)
(* Thrown values, promises and tool results.                               *)
(***************************************************************************)
\* new Error(message)
Error(message) == [is |-> "Error", message |-> message]

\* ZodError.message: the issues as JSON.
ZodErrorMessage(issues) ==
  <<"[">> \o
  Join([i \in 1..Len(issues) |->
          <<"{\"path\": [">> \o Join([j \in 1..Len(issues[i].path) |->
                                        <<issues[i].path[j]>>], ",")
          \o <<"], \"message\": \"">> \o issues[i].message \o <<"\"}">>],
       ",")
  \o <<"]">>

\* The ZodError schema.parse throws: it carries every issue.
ZodError(issues) ==
  [is |-> "ZodError", errors |-> issues, message |-> ZodErrorMessage(issues)]

\* A thrown value that is no Error object (throw "boom", throw {code: 1}).
Thrown(v) == [is |-> "value", value |-> v]

\* error instanceof Error (ZodError extends Error).
InstanceOfError(error) == error.is \in {"Error", "ZodError"}

\* error instanceof ZodError
InstanceOfZodError(error) == error.is = "ZodError"

\* `${n}` of a number.
NumberText(v) == IF v.int THEN <<ToString(v.n)>> ELSE <<ToString(v.n), ".5">>

\* String(value) of a thrown non-Error value.
StringOf(v) ==
  CASE v.t = "string" -> <<v.s>>
    [] v.t = "number" -> NumberText(v)
    [] v.t = "undefined" -> <<"undefined">>
    [] v.t = "null" -> <<"null">>
    [] v.t = "object" -> <<"[object Object]">>
    [] v.t = "array" -> <<"[array]">>

Pending == [state |-> "pending"]

Fulfilled(value) == [state |-> "fulfilled", value |-> value]

Rejected(reason) == [state |-> "rejected", reason |-> reason]

NoPromise == [state |-> "none"]

TextContent(text) == [type |-> "text", text |-> text]

\* {content: [{type: "text", text}]}: isError is not set.
TextResult(text) == [content |-> <<TextContent(text)>>]

\* {isError: true, content: [{type: "text", text}]}
ErrorResult(text) == [content |-> <<TextContent(text)>>, isError |-> TRUE]

(***************************************************************************)
(* What a run of handler code ends in: a return, a throw, or an await of   *)
(* an external call (the handler's locals are kept in h).                  *)
(***************************************************************************)
Return(result) == [end |-> "return", result |-> result]

Throw(error) == [end |-> "throw", error |-> error]

Await(h) == [end |-> "await", h |-> h]

\* How an awaited external promise settles.
Resolves(value) == [settles |-> "resolved", value |-> value]

Rejects(error) == [settles |-> "rejected", error |-> error]

\* getEnvVariable(name, true): the value, or an Error naming the variable.
getEnvVariable(environment, name) ==
  IF name \in environment THEN Return(Str(name))
  ELSE Throw(Error(<<"Missing required environment variable: ", name>>))

(***************************************************************************)
(* HTTP responses of fetch.                                                *)
(***************************************************************************)
HttpResponse(status, statusText) == [status |-> status, statusText |-> statusText]

\* response.ok
Ok(response) == response.status >= 200 /\ response.status <= 299

(***************************************************************************)
(* serperTool.handler                                                      *)
(***************************************************************************)
\* The handler's catch block.
serperCatch(error) ==
  IF InstanceOfError(error) /\ Includes(error.message, "SERPER_API_KEY")
  THEN ErrorResult(<<"Error: SERPER_API_KEY environment variable not set. Please add it to your .env or .env.local file.">>)
  ELSE ErrorResult(<<"Error: ">> \o
                   (IF InstanceOfError(error) THEN error.message
                    ELSE <<"Unknown error occurred">>))

\* From the call to the await of fetch.
serperStart(args, environment) ==
  LET apiKey == getEnvVariable(environment, "SERPER_API_KEY") IN
  IF apiKey.end = "throw" THEN Return(serperCatch(apiKey.error))
  ELSE Await([at |-> "serper.fetch", args |-> args])

\* errorMessage of a response that is not ok.
serperErrorMessage(status) ==
  IF status = 401 THEN <<"Invalid API key">>
  ELSE IF status = 429 THEN <<"API rate limit exceeded">>
  ELSE IF status >= 500 THEN <<"Serper API service error">>
  ELSE <<"Serper API error (", ToString(status), ")">>

\* One formatted search result; index counts from 0.
serperResultText(result, index) ==
  <<ToString(index + 1), ". ">> \o StringOf(Get(result, "title"))
    \o <<"\n   URL: ">> \o StringOf(Get(result, "link"))
    \o <<"\n   ">> \o StringOf(Get(result, "snippet"))

\* Mutant of serperFormat: nothing is reported when there are no results.
serperFormatSilent(args, data) ==
  IF data.t \in {"null", "undefined"} THEN
    Throw(Error(<<"Cannot read properties of ", data.t, " (reading 'organic')">>))
  ELSE
    LET organic == IF data.t = "object" THEN Get(data, "organic") ELSE Undef IN
    IF organic.t # "array" THEN Throw(Error(<<"data.organic.map is not a function">>))
    ELSE
      Return([content |->
                [i \in 1..Len(organic.a) |->
                   TextContent(<<ToString(i), ". ">>
                               \o StringOf(Get(organic.a[i], "title")))]])

\* From the parsed response body to the handler's return.
serperFormat(args, data) ==
  IF data.t \in {"null", "undefined"} THEN
    Throw(Error(<<"Cannot read properties of ", data.t, " (reading 'organic')">>))
  ELSE
    LET organic == IF data.t = "object" THEN Get(data, "organic") ELSE Undef IN
    IF organic.t \in {"undefined", "null"} \/ (organic.t = "array" /\ organic.a = <<>>)
       \/ (organic.t = "string" /\ organic.s = "")
    THEN Return(TextResult(<<"No search results found for \"", Get(args, "query").s, "\"">>))
    ELSE IF organic.t # "array" THEN
      Throw(Error(<<"data.organic.map is not a function">>))
    ELSE
      LET resultsText ==
            Join([i \in 1..Len(organic.a) |-> serperResultText(organic.a[i], i - 1)],
                 "\n\n")
      IN Return(TextResult(<<"Found ", ToString(Len(organic.a)), " results for \"",
                             Get(args, "query").s, "\":\n\n">> \o resultsText))

\* From a settled await to the next await or the return.
serperResume(h, outcome) ==
  IF outcome.settles = "rejected" THEN Return(serperCatch(outcome.error))
  ELSE IF h.at = "serper.fetch" THEN
    IF ~Ok(outcome.value)
    THEN Return(ErrorResult(<<"Error: ">> \o serperErrorMessage(outcome.value.status)))
    ELSE Await([at |-> "serper.json", args |-> h.args])
  ELSE
    LET formatted == serperFormat(h.args, outcome.value) IN
    IF formatted.end = "throw" THEN Return(serperCatch(formatted.error))
    ELSE formatted

(***************************************************************************)
(* tightWebFetchTool.handler.  A page is its sequence of elements, each    *)
(* [tag, role, class, id, text].                                           *)
(***************************************************************************)
Element(tag, role, class, id, text) ==
  [tag |-> tag, role |-> role, class |-> class, id |-> id, text |-> text]

\* An attribute-substring selector such as [class*="ad-"]; an attribute value
\* is a text.
AttrHas(value, part) == Includes(value, part)

cleanHtml(html) ==
  LET removed(e) ==
        \/ e.tag \in {"script", "style", "noscript", "iframe", "nav", "header",
                      "footer", "aside"}
        \/ e.role = "navigation"
        \/ AttrHas(e.class, "ad-") \/ AttrHas(e.id, "ad-")
        \/ AttrHas(e.class, "advertisement") \/ AttrHas(e.class, "social")
        \/ AttrHas(e.class, "share")
        \/ AttrHas(e.class, "comment") \/ AttrHas(e.id, "comment")
      kept == SelectSeq(html, LAMBDA e : ~removed(e))
  IN [i \in 1..Len(kept) |-> Element(kept[i].tag, "", <<>>, <<>>, kept[i].text)]

\* turndownService.turndown: atx headings, paragraphs separated by blank lines.
turndown(html) ==
  Join([i \in 1..Len(html) |->
          IF html[i].tag = "h1" THEN <<"# ", html[i].text>> ELSE <<html[i].text>>],
       "\n\n")

\* The handler's catch block.
tightWebFetchCatch(error) ==
  ErrorResult(<<"Error: ">> \o
              (IF InstanceOfError(error) THEN error.message ELSE <<"Unknown error">>))

tightWebFetchStart(args) == Await([at |-> "web.fetch", args |-> args])

tightWebFetchResume(h, outcome) ==
  IF outcome.settles = "rejected" THEN Return(tightWebFetchCatch(outcome.error))
  ELSE IF h.at = "web.fetch" THEN
    IF ~Ok(outcome.value)
    THEN Return(ErrorResult(<<"Failed to fetch URL: HTTP ",
                              ToString(outcome.value.status), " ",
                              outcome.value.statusText>>))
    ELSE Await([at |-> "web.text", args |-> h.args])
  ELSE
    LET markdown == turndown(cleanHtml(outcome.value)) IN
    Return(TextResult(<<"# Fetched from: ", Get(h.args, "url").s, "\n\n">> \o markdown))

(***************************************************************************)
(* supabaseBulkTool.handler.  A query settles with {data, error}: error is *)
(* Null or an Error, data is Null or an array of rows.                     *)
(***************************************************************************)
QueryResult(data, error) == [data |-> data, error |-> error]

\* From the environment to the client, or the Error of a missing variable.
getSupabaseClient(environment) ==
  LET supabaseUrl == getEnvVariable(environment, "SUPABASE_URL")
      supabaseServiceKey == getEnvVariable(environment, "SUPABASE_SERVICE_ROLE_KEY")
  IN IF supabaseUrl.end = "throw" THEN supabaseUrl
     ELSE IF supabaseServiceKey.end = "throw" THEN supabaseServiceKey
     ELSE Return(Str("client"))

\* {success, message} of a handled command.
Success(message) == [success |-> TRUE, message |-> message]

Failure(message) == [success |-> FALSE, message |-> message]

\* data?.length ?? fallback
LengthOr(data, fallback) == IF data.t = "array" THEN Len(data.a) ELSE fallback

\* handleInsert after its query settled.
handleInsert(args, outcome) ==
  IF outcome.error # Null
  THEN Failure(<<"Insert failed: ">> \o outcome.error.message)
  ELSE Success(<<"Successfully inserted ",
                 ToString(LengthOr(outcome.data, Len(Get(args, "records").a))),
                 " records into \"", Get(args, "table").s, "\"">>)

RECURSIVE Unique(_)
\* [...new Set(values)]: first occurrences, in order.
Unique(values) ==
  IF values = <<>> THEN <<>>
  ELSE LET rest == Unique(SelectSeq(Tail(values), LAMBDA x : x # Head(values)))
       IN <<Head(values)>> \o rest

\* pairs.map((p) => p[side])
PairValues(pairs, side) == [i \in 1..Len(pairs.a) |-> Get(pairs.a[i], side).s]

RECURSIVE BuildMap(_, _)
\* The lookup map of the rows: a later row replaces an earlier one of its key.
BuildMap(rows, column) ==
  IF rows = <<>> THEN <<>>
  ELSE LET last == rows[Len(rows)]
           key == StringOf(Get(last, column))[1]
           id == StringOf(Get(last, "id"))[1]
       IN (key :> id) @@ BuildMap(SubSeq(rows, 1, Len(rows) - 1), column)

\* map.get(key); "" stands for undefined (both are falsy to `!srcId`).
MapGet(map, key) == IF key \in DOMAIN map THEN map[key] ELSE ""

\* srcData || []
RowsOf(data) == IF data.t = "array" THEN data.a ELSE <<>>

RECURSIVE BuildJoinRecordsBothMisses(_, _, _, _)
\* Mutant of BuildJoinRecords: a pair that misses on the source side is also
\* looked at on the destination side.
BuildJoinRecordsBothMisses(args, srcMap, dstMap, i) ==
  LET pairs == Get(args, "pairs").a IN
  IF i > Len(pairs) THEN [joinRecords |-> <<>>, missingLookups |-> <<>>]
  ELSE
    LET pair == pairs[i]
        srcId == MapGet(srcMap, Get(pair, "src").s)
        dstId == MapGet(dstMap, Get(pair, "dst").s)
        rest == BuildJoinRecordsBothMisses(args, srcMap, dstMap, i + 1)
        src == Get(args, "src")
        dst == Get(args, "dst")
        join == Get(args, "join")
    IN IF srcId = "" /\ dstId = "" THEN
         [rest EXCEPT !.missingLookups =
            << <<"Source \"", Get(pair, "src").s, "\" not found in ",
                 Get(src, "table").s, ".", Get(src, "column").s>>,
               <<"Destination \"", Get(pair, "dst").s, "\" not found in ",
                 Get(dst, "table").s, ".", Get(dst, "column").s>> >> \o @]
       ELSE IF srcId = "" THEN
         [rest EXCEPT !.missingLookups =
            << <<"Source \"", Get(pair, "src").s, "\" not found in ",
                 Get(src, "table").s, ".", Get(src, "column").s>> >> \o @]
       ELSE IF dstId = "" THEN
         [rest EXCEPT !.missingLookups =
            << <<"Destination \"", Get(pair, "dst").s, "\" not found in ",
                 Get(dst, "table").s, ".", Get(dst, "column").s>> >> \o @]
       ELSE
         [rest EXCEPT !.joinRecords =
            <<Obj((Get(join, "dst").s :> Str(dstId))
                  @@ (Get(join, "src").s :> Str(srcId)))>> \o @]

RECURSIVE BuildJoinRecords(_, _, _, _)
\* The loop over the pairs from the i-th on: join records and missing lookups.
BuildJoinRecords(args, srcMap, dstMap, i) ==
  LET pairs == Get(args, "pairs").a IN
  IF i > Len(pairs) THEN [joinRecords |-> <<>>, missingLookups |-> <<>>]
  ELSE
    LET pair == pairs[i]
        srcId == MapGet(srcMap, Get(pair, "src").s)
        dstId == MapGet(dstMap, Get(pair, "dst").s)
        rest == BuildJoinRecords(args, srcMap, dstMap, i + 1)
        src == Get(args, "src")
        dst == Get(args, "dst")
        join == Get(args, "join")
    IN IF srcId = "" THEN
         [rest EXCEPT !.missingLookups =
            << <<"Source \"", Get(pair, "src").s, "\" not found in ",
                 Get(src, "table").s, ".", Get(src, "column").s>> >> \o @]
       ELSE IF dstId = "" THEN
         [rest EXCEPT !.missingLookups =
            << <<"Destination \"", Get(pair, "dst").s, "\" not found in ",
                 Get(dst, "table").s, ".", Get(dst, "column").s>> >> \o @]
       ELSE
         [rest EXCEPT !.joinRecords =
            <<Obj((Get(join, "dst").s :> Str(dstId))
                  @@ (Get(join, "src").s :> Str(srcId)))>> \o @]

\* Mutant of handleInsertJoin: the error of the source lookup is not looked at.
handleInsertJoinEager(h, outcome) ==
  LET args == h.args
      join == Get(args, "join")
      src == Get(args, "src")
      dst == Get(args, "dst")
  IN
  IF h.at = "join.src" THEN
    Await([at |-> "join.dst", args |-> args, srcData |-> outcome.data])
  ELSE IF h.at = "join.dst" THEN
    IF outcome.error # Null
    THEN Return(Failure(<<"Failed to lookup destination values from \"",
                          Get(dst, "table").s, "\": ">> \o outcome.error.message))
    ELSE
      LET srcMap == BuildMap(RowsOf(h.srcData), Get(src, "column").s)
          dstMap == BuildMap(RowsOf(outcome.data), Get(dst, "column").s)
          built == BuildJoinRecords(args, srcMap, dstMap, 1)
      IN IF Len(built.joinRecords) = 0
         THEN Return(Failure(<<"No valid pairs to insert. Missing lookups:\n">>
                             \o Join(built.missingLookups, "\n")))
         ELSE Await([at |-> "join.insert", args |-> args,
                     joinRecords |-> built.joinRecords,
                     missingLookups |-> built.missingLookups])
  ELSE
    IF outcome.error # Null
    THEN Return(Failure(<<"Insert into join table \"", Get(join, "table").s,
                          "\" failed: ">> \o outcome.error.message))
    ELSE
      LET message ==
            <<"Successfully inserted ",
              ToString(LengthOr(outcome.data, Len(h.joinRecords))),
              " records into \"", Get(join, "table").s, "\"">>
      IN Return(Success(
           IF Len(h.missingLookups) > 0
           THEN message \o <<"\n\nWarning: ", ToString(Len(h.missingLookups)),
                             " pairs skipped due to missing lookups:\n">>
                        \o Join(h.missingLookups, "\n")
           ELSE message))

\* handleInsertJoin from a settled query to its next query or its return.
handleInsertJoin(h, outcome) ==
  LET args == h.args
      join == Get(args, "join")
      src == Get(args, "src")
      dst == Get(args, "dst")
  IN
  IF h.at = "join.src" THEN
    IF outcome.error # Null
    THEN Return(Failure(<<"Failed to lookup source values from \"", Get(src, "table").s,
                          "\": ">> \o outcome.error.message))
    ELSE Await([at |-> "join.dst", args |-> args, srcData |-> outcome.data])
  ELSE IF h.at = "join.dst" THEN
    IF outcome.error # Null
    THEN Return(Failure(<<"Failed to lookup destination values from \"",
                          Get(dst, "table").s, "\": ">> \o outcome.error.message))
    ELSE
      LET srcMap == BuildMap(RowsOf(h.srcData), Get(src, "column").s)
          dstMap == BuildMap(RowsOf(outcome.data), Get(dst, "column").s)
          built == BuildJoinRecords(args, srcMap, dstMap, 1)
      IN IF Len(built.joinRecords) = 0
         THEN Return(Failure(<<"No valid pairs to insert. Missing lookups:\n">>
                             \o Join(built.missingLookups, "\n")))
         ELSE Await([at |-> "join.insert", args |-> args,
                     joinRecords |-> built.joinRecords,
                     missingLookups |-> built.missingLookups])
  ELSE
    IF outcome.error # Null
    THEN Return(Failure(<<"Insert into join table \"", Get(join, "table").s,
                          "\" failed: ">> \o outcome.error.message))
    ELSE
      LET message ==
            <<"Successfully inserted ",
              ToString(LengthOr(outcome.data, Len(h.joinRecords))),
              " records into \"", Get(join, "table").s, "\"">>
      IN Return(Success(
           IF Len(h.missingLookups) > 0
           THEN message \o <<"\n\nWarning: ", ToString(Len(h.missingLookups)),
                             " pairs skipped due to missing lookups:\n">>
                        \o Join(h.missingLookups, "\n")
           ELSE message))

\* The handler's catch block.
supabaseBulkCatch(error) ==
  IF InstanceOfError(error) /\ Includes(error.message, "SUPABASE_URL")
  THEN ErrorResult(<<"Error: SUPABASE_URL environment variable not set. Please add it to your .env or .env.local file.">>)
  ELSE IF InstanceOfError(error) /\ Includes(error.message, "SUPABASE_SERVICE_ROLE_KEY")
  THEN ErrorResult(<<"Error: SUPABASE_SERVICE_ROLE_KEY environment variable not set. Please add it to your .env or .env.local file.">>)
  ELSE ErrorResult(<<"Error: ">> \o
                   (IF InstanceOfError(error) THEN error.message
                    ELSE <<"Unknown error occurred">>))

\* The handler's tail: from {success, message} to the tool result.
supabaseBulkResult(result) ==
  IF ~result.success THEN ErrorResult(<<"Error: ">> \o result.message)
  ELSE TextResult(result.message)

\* From the call to the await of the command's first query.
supabaseBulkStart(args, environment) ==
  LET supabase == getSupabaseClient(environment) IN
  IF supabase.end = "throw" THEN Return(supabaseBulkCatch(supabase.error))
  ELSE IF Get(args, "command") = Str("insert")
  THEN Await([at |-> "insert", args |-> args])
  ELSE IF Get(args, "command") = Str("insert_join")
  THEN Await([at |-> "join.src", args |-> args])
  ELSE Return(ErrorResult(<<"Error: Unknown command \"">>
                          \o StringOf(Get(args, "command"))
                          \o <<"\". Supported commands: insert, insert_join">>))

\* From a settled query to the next query or the return.
supabaseBulkResume(h, outcome) ==
  IF outcome.settles = "rejected" THEN Return(supabaseBulkCatch(outcome.error))
  ELSE IF h.at = "insert"
  THEN Return(supabaseBulkResult(handleInsert(h.args, outcome.value)))
  ELSE
    LET step == handleInsertJoin(h, outcome.value) IN
    IF step.end = "await" THEN step
    ELSE Return(supabaseBulkResult(step.result))

(***************************************************************************)
(* calculatorTool.handler, over integers.                                  *)
(***************************************************************************)
\* The text of a / b: the quotient when it is an integer, else the fraction.
QuotientText(a, b) ==
  LET absA == IF a < 0 THEN -a ELSE a
      absB == IF b < 0 THEN -b ELSE b
      q == absA \div absB
  IN IF absA % absB = 0
     THEN <<ToString(IF (a < 0) # (b < 0) THEN -q ELSE q)>>
     ELSE <<ToString(a), "/", ToString(b)>>

\* Mutant of calculatorHandler: subtract takes its operands in the other order.
calculatorHandlerSwapped(args) ==
  LET operation == Get(args, "operation").s
      a == Get(args, "a")
      b == Get(args, "b")
  IN
  IF operation = "divide" /\ b = Num(0)
  THEN Return(ErrorResult(<<"Error: Cannot divide by zero">>))
  ELSE IF operation \notin {"add", "subtract", "multiply", "divide"}
  THEN Return(ErrorResult(<<"Error: Unknown operation: ", operation>>))
  ELSE
    LET result ==
          CASE operation = "add" -> <<ToString(a.n + b.n)>>
            [] operation = "subtract" -> <<ToString(b.n - a.n)>>
            [] operation = "multiply" -> <<ToString(a.n * b.n)>>
            [] operation = "divide" -> QuotientText(a.n, b.n)
    IN Return(TextResult(NumberText(a) \o <<" ", operation, " ">> \o NumberText(b)
                         \o <<" = ">> \o result))

calculatorHandler(args) ==
  LET operation == Get(args, "operation").s
      a == Get(args, "a")
      b == Get(args, "b")
  IN
  IF operation = "divide" /\ b = Num(0)
  THEN Return(ErrorResult(<<"Error: Cannot divide by zero">>))
  ELSE IF operation \notin {"add", "subtract", "multiply", "divide"}
  THEN Return(ErrorResult(<<"Error: Unknown operation: ", operation>>))
  ELSE
    LET result ==
          CASE operation = "add" -> <<ToString(a.n + b.n)>>
            [] operation = "subtract" -> <<ToString(a.n - b.n)>>
            [] operation = "multiply" -> <<ToString(a.n * b.n)>>
            [] operation = "divide" -> QuotientText(a.n, b.n)
    IN Return(TextResult(NumberText(a) \o <<" ", operation, " ">> \o NumberText(b)
                         \o <<" = ">> \o result))

(***************************************************************************)
(* echoTool.handler                                                        *)
(***************************************************************************)
\* toUpperCase and toLowerCase, on the messages of the model.
ToUpperCase(s) == IF s \in {"Hello", "hello", "HELLO"} THEN "HELLO" ELSE s

ToLowerCase(s) == IF s \in {"Hello", "hello", "HELLO"} THEN "hello" ELSE s

echoHandler(args) ==
  LET message == Get(args, "message").s
      transform == Get(args, "transform")
  IN Return(TextResult(<<IF transform = Str("uppercase") THEN ToUpperCase(message)
                         ELSE IF transform = Str("lowercase") THEN ToLowerCase(message)
                         ELSE message>>))

(***************************************************************************)
(* yourTool.handler: "Your tool logic here".  The handler of a tool added  *)
(* to the registry is any function from the arguments to a promise of a    *)
(* tool response: it throws, or it suspends and then returns or throws.    *)
(***************************************************************************)
\* What a handler may return.
YourResults ==
  {TextResult(<<"Processed: ", "x">>),
   ErrorResult(<<"Error: Something went wrong">>),
   [content |-> <<TextContent(<<"Operation successful">>)>>, isError |-> FALSE],
   [content |-> <<TextContent(<<"one">>), TextContent(<<"two">>)>>],
   [content |-> <<>>]}

\* What a handler may throw.
YourErrors ==
  {Error(<<"boom">>),
   Thrown(Str("boom")),
   Thrown(Obj([code |-> Num(1)])),
   Thrown(Undef),
   ZodError(<<Issue(<<"temperature">>, <<"Required">>)>>)}

\* The choice of a start that does not throw.
Proceed == [end |-> "proceed"]

yourToolStart(args, choice) ==
  IF choice.end = "throw" THEN choice
  ELSE Await([at |-> "your.logic", args |-> args])

yourToolResume(h, outcome) ==
  IF outcome.settles = "rejected" THEN Throw(outcome.error)
  ELSE Return(outcome.value)

(***************************************************************************)
(* tool.handler(args) of a tool definition: the run up to its first await, *)
(* and the run from a settled await on.                                    *)
(***************************************************************************)
HandlerStart(tool, args, environment, choice) ==
  CASE tool.id = "serperTool" -> serperStart(args, environment)
    [] tool.id = "supabaseBulkTool" -> supabaseBulkStart(args, environment)
    [] tool.id = "tightWebFetchTool" -> tightWebFetchStart(args)
    [] tool.id = "calculatorTool" -> calculatorHandler(args)
    [] tool.id = "echoTool" -> echoHandler(args)
    [] OTHER -> yourToolStart(args, choice)

HandlerResume(tool, h, outcome) ==
  CASE tool.id = "serperTool" -> serperResume(h, outcome)
    [] tool.id = "supabaseBulkTool" -> supabaseBulkResume(h, outcome)
    [] tool.id = "tightWebFetchTool" -> tightWebFetchResume(h, outcome)
    [] OTHER -> yourToolResume(h, outcome)

\* The sets the inputs of a start are drawn from.
StartChoices(tool) ==
  IF tool.id = "yourTool"
  THEN {Proceed} \cup {Throw(e) : e \in YourErrors}
  ELSE {Proceed}

(***************************************************************************)
(* The list-tools request handler.                                         *)
(***************************************************************************)
\* Mutant of SchemaShape: the shape is read without the optional chaining, so
\* a schema that has none throws.
SchemaShapeUnguarded(zodSchema) ==
  IF zodSchema.typeName = "ZodObject"
  THEN [ok |-> TRUE, keys |-> zodSchema.keys, shape |-> zodSchema.shape]
  ELSE [ok |-> FALSE]

\* zodSchema._def?.shape?.() || {} : the fields of an object schema, none for
\* any other schema.  ok = FALSE stands for a TypeError thrown by the read.
SchemaShape(zodSchema) ==
  IF zodSchema.typeName = "ZodObject"
  THEN [ok |-> TRUE, keys |-> zodSchema.keys, shape |-> zodSchema.shape]
  ELSE [ok |-> TRUE, keys |-> <<>>, shape |-> <<>>]

\* Whether the loop pushes the field's key to required.
IsRequired(fieldSchema) == fieldSchema.typeName # "ZodOptional"

\* The serialised entry of one tool.
ListEntry(tool) ==
  LET shape == SchemaShape(tool.inputSchema) IN
  IF ~shape.ok THEN [threw |-> "TypeError"]
  ELSE
    [name |-> tool.name,
     description |-> tool.description,
     inputSchema |->
       [type |-> "object",
        properties |->
          [key \in {shape.keys[i] : i \in 1..Len(shape.keys)} |->
             [type |-> "string", description |-> shape.shape[key].description]],
        required |-> SelectSeq(shape.keys, LAMBDA key : IsRequired(shape.shape[key]))]]

\* Mutant of ListToolsHandler: the entries come out last-registered first.
ListToolsHandlerReversed(registry) ==
  [tools |-> [i \in 1..Len(registry) |-> ListEntry(registry[Len(registry) + 1 - i])]]

\* tools.map(...): the response, or the error of an entry that threw.
ListToolsHandler(registry) ==
  LET entries == [i \in 1..Len(registry) |-> ListEntry(registry[i])] IN
  IF \E i \in 1..Len(entries) : "threw" \in DOMAIN entries[i]
  THEN [error |-> "TypeError"]
  ELSE [tools |-> entries]

(***************************************************************************)
(* The call-tool request handler (the dispatcher).                         *)
(***************************************************************************)
\* Mutant of Find: a miss falls back to the first tool of the registry.
FindOrFirst(registry, toolName) ==
  IF \E i \in 1..Len(registry) : registry[i].name = toolName
  THEN CHOOSE i \in 1..Len(registry) :
         /\ registry[i].name = toolName
         /\ \A j \in 1..(i - 1) : registry[j].name # toolName
  ELSE 1

\* Mutant of Find: the last tool of the name is found.
FindLast(registry, toolName) ==
  IF \E i \in 1..Len(registry) : registry[i].name = toolName
  THEN CHOOSE i \in 1..Len(registry) :
         /\ registry[i].name = toolName
         /\ \A j \in (i + 1)..Len(registry) : registry[j].name # toolName
  ELSE 0

\* tools.find((t) => t.name === toolName): the index of the first match, 0
\* for undefined.
Find(registry, toolName) ==
  IF \E i \in 1..Len(registry) : registry[i].name = toolName
  THEN CHOOSE i \in 1..Len(registry) :
         /\ registry[i].name = toolName
         /\ \A j \in 1..(i - 1) : registry[j].name # toolName
  ELSE 0

UnknownToolResponse(toolName) ==
  [content |-> <<TextContent(<<"Unknown tool: ", toolName>>)>>, isError |-> TRUE]

\* Mutant of InvalidArgumentsText: only the first issue is reported.
FirstIssueText(errors) ==
  <<"Invalid arguments: ">> \o
  Join([j \in 1..Len(errors[1].path) |-> <<errors[1].path[j]>>], ".")
  \o <<": ">> \o errors[1].message

\* The text of a ZodError: every issue as "path: message", joined by ", ".
InvalidArgumentsText(errors) ==
  <<"Invalid arguments: ">> \o
  Join([i \in 1..Len(errors) |->
          Join([j \in 1..Len(errors[i].path) |-> <<errors[i].path[j]>>], ".")
          \o <<": ">> \o errors[i].message],
       ", ")

\* Mutant of DispatcherCatch: a thrown value without a message is reported
\* with a generic text.
DispatcherCatchGeneric(error) ==
  IF InstanceOfZodError(error)
  THEN [content |-> <<TextContent(InvalidArgumentsText(error.errors))>>,
        isError |-> TRUE]
  ELSE [content |->
          <<TextContent(<<"Error executing tool: ">> \o
                        (IF InstanceOfError(error) THEN error.message
                         ELSE <<"Unknown error">>))>>,
        isError |-> TRUE]

\* The catch block of the dispatcher.
DispatcherCatch(error) ==
  IF InstanceOfZodError(error)
  THEN [content |-> <<TextContent(InvalidArgumentsText(error.errors))>>,
        isError |-> TRUE]
  ELSE [content |->
          <<TextContent(<<"Error executing tool: ">> \o
                        (IF InstanceOfError(error) THEN error.message
                         ELSE StringOf(error.value)))>>,
        isError |-> TRUE]

\* Mutant of DispatcherReturn: the handler's isError flag is dropped.
DispatcherReturnNoFlag(result) == [content |-> result.content, isError |-> FALSE]

\* The response built from the handler's result: result.isError || false.
DispatcherReturn(result) ==
  [content |-> result.content,
   isError |-> IF "isError" \in DOMAIN result THEN result.isError ELSE FALSE]

\* request.params.arguments || {}
ArgumentsOrEmpty(arguments) ==
  IF arguments.t \in {"undefined", "null"} THEN EmptyObj ELSE arguments

\* tool.inputSchema.parse(value): the parsed value, or a thrown ZodError.
SchemaParse(schema, value) ==
  LET parsed == ZodParse(schema, value, <<>>) IN
  IF parsed.issues = <<>> THEN Return(parsed.value)
  ELSE Throw(ZodError(parsed.issues))

(***************************************************************************)
(* The inputs: the requests the host sends and the ways the external       *)
(* calls settle.                                                           *)
(***************************************************************************)
ValidJoin(pairs) ==
  Obj([command |-> Str("insert_join"),
       join |-> Obj([table |-> Str("book_tags"), src |-> Str("book_id"),
                     dst |-> Str("tag_id")]),
       src |-> Obj([table |-> Str("books"), column |-> Str("title")]),
       dst |-> Obj([table |-> Str("tags"), column |-> Str("label")]),
       pairs |-> Arr(pairs)])

Pair(src, dst) == Obj([src |-> Str(src), dst |-> Str(dst)])

\* The arguments sent with a tool name.
ArgumentsFor(name) ==
  CASE name = "non_code_web_search" ->
         {Undef,
          Obj([query |-> Str(""), num |-> Num(0)]),
          Obj([query |-> Num(7), num |-> Flt(0)]),
          Obj([query |-> Str("mcp"), num |-> Num(101)]),
          Obj([query |-> Str("mcp")]),
          Obj([query |-> Str("mcp"), num |-> Num(3), page |-> Num(2)])}
    [] name = "tight_web_fetch" ->
         {Undef,
          Obj([url |-> Str("not a url")]),
          Obj([url |-> Str("https://example.com/a")])}
    [] name = "supabase_bulk" ->
         {Undef,
          Obj([command |-> Str("delete")]),
          Obj([command |-> Str("insert"), table |-> Str(""), records |-> Arr(<<>>)]),
          Obj([command |-> Str("insert"), table |-> Str("books"),
               records |-> Arr(<<Obj([title |-> Str("Dune")])>>)]),
          Obj([command |-> Str("insert_join"), join |-> Obj([table |-> Str("book_tags")]),
               src |-> Str("books"), pairs |-> Arr(<<Obj([src |-> Str("Dune")])>>)]),
          ValidJoin(<<Pair("Dune", "scifi")>>),
          ValidJoin(<<Pair("Dune", "scifi"), Pair("Emma", "scifi")>>)}
    [] name = "calculate" ->
         {Undef,
          Obj([operation |-> Str("power"), a |-> Str("2")]),
          Obj([operation |-> Str("divide"), a |-> Num(10), b |-> Num(0)]),
          Obj([operation |-> Str("divide"), a |-> Num(10), b |-> Num(2)]),
          Obj([operation |-> Str("add"), a |-> Num(2), b |-> Num(3)]),
          Obj([operation |-> Str("subtract"), a |-> Num(2), b |-> Num(3)]),
          Obj([operation |-> Str("multiply"), a |-> Num(2), b |-> Num(3)])}
    [] name = "echo" ->
         {Undef,
          Obj([message |-> Str("Hello")]),
          Obj([message |-> Str("Hello"), transform |-> Str("uppercase")]),
          Obj([message |-> Str("Hello"), transform |-> Str("lowercase")]),
          Obj([message |-> Num(1), transform |-> Str("reverse")])}
    [] name = "your_tool_name" ->
         {Undef,
          Obj([param1 |-> Str("x")]),
          Obj([param1 |-> Str("x"), param2 |-> Num(2)]),
          Obj([param1 |-> Num(1), param2 |-> Str("2")])}
    [] OTHER -> {Undef, Obj([query |-> Str("mcp")])}

\* The tool names the host calls: those of the tool definitions, and one of
\* no tool.
ToolNames ==
  {"non_code_web_search", "supabase_bulk", "tight_web_fetch", "calculate", "echo",
   "your_tool_name", "does_not_exist"}

Requests ==
  UNION {{[name |-> name, arguments |-> arguments] :
            arguments \in ArgumentsFor(name)} : name \in ToolNames}

\* How fetch settles.
FetchOutcomes ==
  {Rejects(Error(<<"fetch failed">>)),
   Resolves(HttpResponse(200, "OK")),
   Resolves(HttpResponse(401, "Unauthorized")),
   Resolves(HttpResponse(404, "Not Found")),
   Resolves(HttpResponse(429, "Too Many Requests")),
   Resolves(HttpResponse(500, "Internal Server Error"))}

SearchResult(title) ==
  Obj([title |-> Str(title), link |-> Str("https://example.com/a"),
       snippet |-> Str("...")])

\* How response.json() settles.
JsonOutcomes ==
  {Rejects(Error(<<"Unexpected token < in JSON">>)),
   Resolves(Null),
   Resolves(EmptyObj),
   Resolves(Obj([organic |-> Arr(<<>>)])),
   Resolves(Obj([organic |-> Str("none")])),
   Resolves(Obj([organic |-> Arr(<<SearchResult("MCP")>>)])),
   Resolves(Obj([organic |-> Arr(<<SearchResult("MCP"), SearchResult("Zod")>>)]))}

\* How response.text() settles.
TextOutcomes ==
  {Rejects(Error(<<"body stream already read">>)),
   Resolves(<<>>),
   Resolves(<<Element("script", "", <<>>, <<>>, "track()"),
              Element("nav", "", <<>>, <<>>, "Home")>>),
   Resolves(<<Element("h1", "", <<>>, <<>>, "Title"),
              Element("div", "", <<"ad-", "banner">>, <<>>, "Buy"),
              Element("p", "", <<"lead">>, <<"intro">>, "Body"),
              Element("div", "navigation", <<>>, <<>>, "Menu")>>)}

RECURSIVE SubSeqs(_)
\* The subsequences of a sequence.
SubSeqs(values) ==
  IF values = <<>> THEN {<<>>}
  ELSE LET rest == SubSeqs(Tail(values))
       IN rest \cup {<<Head(values)>> \o r : r \in rest}

\* The row a lookup finds for a value.
Row(column, value) ==
  Obj((column :> Str(value)) @@ ("id" :> Str("id-" \o value)))

\* How a lookup `.select("*").in(column, values)` settles.
LookupOutcomes(column, values) ==
  {Rejects(Error(<<"fetch failed">>)),
   Resolves(QueryResult(Null, Error(<<"permission denied">>))),
   Resolves(QueryResult(Null, Null))}
  \cup {Resolves(QueryResult(Arr([i \in 1..Len(found) |-> Row(column, found[i])]), Null)) :
          found \in SubSeqs(values)}

\* How `.insert(records).select()` settles.
InsertOutcomes(records) ==
  {Rejects(Error(<<"fetch failed">>)),
   Resolves(QueryResult(Null, Error(<<"duplicate key value">>))),
   Resolves(QueryResult(Null, Null)),
   Resolves(QueryResult(Arr(records), Null))}

\* The ways the external call a handler is suspended on may settle.
AwaitOutcomes(h) ==
  CASE h.at \in {"serper.fetch", "web.fetch"} -> FetchOutcomes
    [] h.at = "serper.json" -> JsonOutcomes
    [] h.at = "web.text" -> TextOutcomes
    [] h.at = "insert" -> InsertOutcomes(Get(h.args, "records").a)
    [] h.at = "join.src" ->
         LookupOutcomes(Get(Get(h.args, "src"), "column").s,
                        Unique(PairValues(Get(h.args, "pairs"), "src")))
    [] h.at = "join.dst" ->
         LookupOutcomes(Get(Get(h.args, "dst"), "column").s,
                        Unique(PairValues(Get(h.args, "pairs"), "dst")))
    [] h.at = "join.insert" -> InsertOutcomes(h.joinRecords)
    [] h.at = "your.logic" ->
         {Resolves(r) : r \in YourResults} \cup {Rejects(e) : e \in YourErrors}

(***************************************************************************)
(* The state of the server process.                                        *)
(***************************************************************************)
VARIABLES
  tools,   \* the registry: the tool definitions in registration order
  env,     \* the names of the environment variables that are set
  calls,   \* the call-tool requests, by arrival number; the log of a call is
           \* the history of the external calls its handler awaited
  lists    \* the responses to the list-tools requests, in order

vars == <<tools, env, calls, lists>>

CallIds == 1..MaxCalls

\* A call-tool request that has not arrived yet.
NoCall ==
  [pc |-> "idle", name |-> "", arguments |-> Undef, tool |-> 0,
   validated |-> FALSE, invoked |-> FALSE, threw |-> "no", afterThrow |-> FALSE,
   h |-> <<>>, log |-> <<>>, promise |-> NoPromise, responses |-> <<>>]

EnvironmentNames == {"SERPER_API_KEY", "SUPABASE_URL", "SUPABASE_SERVICE_ROLE_KEY"}

\* The environments the process is started in.
Environments == {EnvironmentNames, {"SUPABASE_URL"}, {}}

Init ==
  /\ tools = ToolRegistry
  /\ env \in Environments
  /\ calls = [c \in CallIds |-> NoCall]
  /\ lists = <<>>

\* Some handler has thrown so far.
SomeThrew == \E c \in CallIds : calls[c].threw \in {"sync", "async"}

(***************************************************************************)
(* A call-tool request arrives: the dispatcher runs up to its return or to *)
(* the await of the handler's promise, the handler up to its first await.  *)
(***************************************************************************)
CallToolStart(registry, environment, request, choice) ==
  LET i == Find(registry, request.name)
      base == [NoCall EXCEPT !.name = request.name, !.arguments = request.arguments,
                             !.tool = i, !.afterThrow = SomeThrew]
  IN
  IF i = 0 THEN
    [base EXCEPT !.pc = "responded",
                 !.responses = <<UnknownToolResponse(request.name)>>]
  ELSE
    LET tool == registry[i]
        args == SchemaParse(tool.inputSchema, ArgumentsOrEmpty(request.arguments))
    IN
    IF args.end = "throw" THEN
      [base EXCEPT !.pc = "responded", !.validated = TRUE, !.threw = "parse",
                   !.responses = <<DispatcherCatch(args.error)>>]
    ELSE
      LET run == HandlerStart(tool, args.result, environment, choice)
          invoked == [base EXCEPT !.validated = TRUE, !.invoked = TRUE]
      IN CASE run.end = "throw" ->
                [invoked EXCEPT !.pc = "responded", !.threw = "sync",
                                !.promise = Rejected(run.error),
                                !.responses = <<DispatcherCatch(run.error)>>]
           [] run.end = "return" ->
                [invoked EXCEPT !.pc = "settled", !.promise = Fulfilled(run.result)]
           [] run.end = "await" ->
                [invoked EXCEPT !.pc = "running", !.promise = Pending, !.h = run.h]

\* The arrival of call c with one of the given requests.
CallToolOf(c, requests) ==
  /\ calls[c].pc = "idle"
  /\ c > 1 => calls[c - 1].pc # "idle"
  /\ \E request \in requests :
       \E choice \in (IF Find(tools, request.name) = 0 THEN {Proceed}
                      ELSE StartChoices(tools[Find(tools, request.name)])) :
         calls' = [calls EXCEPT ![c] = CallToolStart(tools, env, request, choice)]
  /\ UNCHANGED <<tools, env, lists>>

CallTool(c) == CallToolOf(c, Requests)

(***************************************************************************)
(* The external call a handler awaits settles: the handler runs on to its  *)
(* next await, or returns or throws, which settles the handler's promise.  *)
(***************************************************************************)
HandlerStep(registry, call, outcome) ==
  LET run == HandlerResume(registry[call.tool], call.h, outcome)
      logged == [call EXCEPT !.log = Append(@, [at |-> call.h.at, outcome |-> outcome])]
  IN
  CASE run.end = "await" -> [logged EXCEPT !.h = run.h]
    [] run.end = "return" ->
         [logged EXCEPT !.pc = "settled", !.h = <<>>, !.promise = Fulfilled(run.result)]
    [] run.end = "throw" ->
         [logged EXCEPT !.pc = "settled", !.h = <<>>, !.threw = "async",
                        !.promise = Rejected(run.error)]

AwaitSettles(c) ==
  /\ calls[c].pc = "running"
  /\ \E outcome \in AwaitOutcomes(calls[c].h) :
       calls' = [calls EXCEPT ![c] = HandlerStep(tools, calls[c], outcome)]
  /\ UNCHANGED <<tools, env, lists>>

(***************************************************************************)
(* The dispatcher resumes from `await tool.handler(args)`: it returns the  *)
(* response of the result, or catches the rejection.                       *)
(***************************************************************************)
\* Mutant of DispatcherSettle: a rejection is not caught, the call is dropped.
DispatcherSettleUncaught(call) ==
  IF call.promise.state = "fulfilled"
  THEN [call EXCEPT !.pc = "responded",
                    !.responses = Append(@, DispatcherReturn(call.promise.value))]
  ELSE [call EXCEPT !.pc = "failed"]

\* Mutant of DispatcherSettle: the handler's result is kept in one place that
\* the calls share, and a resuming call reads the result that is there.
DispatcherSettleShared(call) ==
  LET other == CHOOSE d \in CallIds : calls[d].pc = "settled" IN
  [call EXCEPT !.pc = "responded",
               !.responses = Append(@, IF calls[other].promise.state = "fulfilled"
                                       THEN DispatcherReturn(calls[other].promise.value)
                                       ELSE DispatcherCatch(calls[other].promise.reason))]

DispatcherSettle(call) ==
  [call EXCEPT !.pc = "responded",
               !.responses = Append(@, IF call.promise.state = "fulfilled"
                                       THEN DispatcherReturn(call.promise.value)
                                       ELSE DispatcherCatch(call.promise.reason))]

DispatcherResume(c) ==
  /\ calls[c].pc = "settled"
  /\ calls' = [calls EXCEPT ![c] = DispatcherSettle(calls[c])]
  /\ UNCHANGED <<tools, env, lists>>

(***************************************************************************)
(* A list-tools request arrives and is answered.                           *)
(***************************************************************************)
\* The calls that have been answered.
Responded == {c \in CallIds : calls[c].pc = "responded"}

ListTools ==
  /\ Len(lists) < MaxLists
  /\ lists' = Append(lists, [response |-> ListToolsHandler(tools),
                             responded |-> Cardinality(Responded)])
  /\ UNCHANGED <<tools, env, calls>>

Next ==
  \/ \E c \in CallIds : CallTool(c)
  \/ \E c \in CallIds : AwaitSettles(c)
  \/ \E c \in CallIds : DispatcherResume(c)
  \/ ListTools

\* The server as it is built: the registry of tools/index.ts.
Spec == Init /\ [][Next]_vars

\* The registry of the README's "Adding New Tools": the example tools and a
\* tool of the server's user.
ReadmeRegistry == <<echoTool, calculatorTool, yourTool>>

InitAny ==
  /\ tools = ReadmeRegistry
  /\ env = EnvironmentNames
  /\ calls = [c \in CallIds |-> NoCall]
  /\ lists = <<>>

\* The dispatcher over a registry whose handlers may do anything a handler may.
SpecAny == InitAny /\ [][Next]_vars

\* An awaited promise settles and a settled promise resumes its awaiter.
Fairness ==
  \A c \in CallIds : WF_vars(AwaitSettles(c)) /\ WF_vars(DispatcherResume(c))

FairSpecAny == InitAny /\ [][Next]_vars /\ Fairness

(***************************************************************************)
(* Properties.                                                             *)
(***************************************************************************)
\* The single response of an answered call.
ResponseOf(c) == calls[c].responses[1]

\* The text of the single content item of a response.
TextOf(response) == response.content[1].text

\* Path.join(".") followed by ": " and the message, as the dispatcher prints
\* one issue.
IssueText(issue) ==
  Join([j \in 1..Len(issue.path) |-> <<issue.path[j]>>], ".")
  \o <<": ">> \o issue.message

\* C1: every call-tool request that reaches the dispatcher is answered with
\* exactly one tool result on every path (unknown tool, validation failure,
\* soft failure, throw, success): given that the handler's promise settles the
\* call eventually is responded, an answered call has one response and keeps
\* it, and no call is answered twice or left unanswered.
C1_AnsweredExactlyOnce ==
  /\ [](\A c \in CallIds :
          /\ calls[c].pc \in {"idle", "running", "settled", "responded"}
          /\ Len(calls[c].responses) = (IF calls[c].pc = "responded" THEN 1 ELSE 0))
  /\ [][\A c \in CallIds : calls[c].pc = "responded" => calls'[c] = calls[c]]_vars
  /\ \A c \in CallIds : (calls[c].pc # "idle") ~> (calls[c].pc = "responded")

\* C1 witness: both calls were answered, one after its handler's promise was
\* rejected and one after its handler's promise was fulfilled.
C1_Witness ==
  \E c, d \in CallIds :
    /\ calls[c].pc = "responded" /\ calls[c].promise.state = "rejected"
    /\ calls[c].threw = "async" /\ Len(calls[c].responses) = 1
    /\ calls[d].pc = "responded" /\ calls[d].promise.state = "fulfilled"
    /\ Len(calls[d].responses) = 1

\* A call whose name is the name of no tool definition of the registry.
IsUnknown(c) ==
  /\ calls[c].pc # "idle"
  /\ \A i \in 1..Len(tools) : tools[i].name # calls[c].name

\* C2: a call whose name matches no registered descriptor is answered with
\* isError true and the single text "Unknown tool: <name>", and neither the
\* schema validator nor a handler is run for it.
C2_UnknownTool ==
  \A c \in CallIds :
    IsUnknown(c) =>
      /\ calls[c].pc = "responded"
      /\ calls[c].responses =
           <<[content |-> <<[type |-> "text",
                             text |-> <<"Unknown tool: ", calls[c].name>>]>>,
              isError |-> TRUE]>>
      /\ ~calls[c].validated
      /\ ~calls[c].invoked
      /\ calls[c].promise = NoPromise

\* C2 witness: the call of "does_not_exist" was answered.
C2_Witness ==
  \E c \in CallIds :
    /\ IsUnknown(c)
    /\ calls[c].name = "does_not_exist"
    /\ calls[c].pc = "responded"

\* The issues of the arguments of call c against the schema of its tool.
IssuesOf(c) ==
  ZodParse(tools[calls[c].tool].inputSchema,
           IF calls[c].arguments = Undef THEN EmptyObj ELSE calls[c].arguments,
           <<>>).issues

\* C3: a call to a registered tool whose arguments (an empty record when
\* absent) violate the tool's schema never reaches the handler, and is answered
\* with isError true and one text that names every failing field path with its
\* message.
C3_ValidationFailure ==
  \A c \in CallIds :
    (calls[c].pc # "idle" /\ calls[c].tool # 0 /\ IssuesOf(c) # <<>>) =>
      /\ ~calls[c].invoked
      /\ calls[c].pc = "responded"
      /\ Len(calls[c].responses) = 1
      /\ ResponseOf(c).isError = TRUE
      /\ Len(ResponseOf(c).content) = 1
      /\ TextOf(ResponseOf(c))[1] = "Invalid arguments: "
      /\ \A i \in 1..Len(IssuesOf(c)) :
           Contains(TextOf(ResponseOf(c)), IssueText(IssuesOf(c)[i]))

\* C3 witness: the search tool was called with an empty query and num 0, and
\* the answer names both fields; the bulk tool was called with a join that
\* lacks nested fields, and the answer names the nested paths.
C3_Witness ==
  \E c, d \in CallIds :
    /\ calls[c].pc = "responded" /\ calls[c].name = "non_code_web_search"
    /\ calls[c].arguments = Obj([query |-> Str(""), num |-> Num(0)])
    /\ Contains(TextOf(ResponseOf(c)), <<"query", ": ">>)
    /\ Contains(TextOf(ResponseOf(c)), <<"num", ": ">>)
    /\ ~calls[c].invoked
    /\ calls[d].pc = "responded" /\ calls[d].name = "supabase_bulk"
    /\ Contains(TextOf(ResponseOf(d)), <<"join", ".", "src", ": ", "Required">>)
    /\ Contains(TextOf(ResponseOf(d)), <<"pairs", ".", "0", ".", "dst", ": ", "Required">>)
    /\ ~calls[d].invoked

\* A call whose handler threw: out of its own run, or by rejecting its promise.
HandlerThrew(c) == calls[c].threw \in {"sync", "async"}

\* C4: when a handler throws (synchronously or by rejecting its promise) the
\* dispatcher answers the call with isError true and a text containing the
\* failure's message; the process goes on, and a call that arrives after a
\* handler threw is dispatched and answered like any other.
C4_HandlerThrowCaught ==
  \A c \in CallIds :
    /\ calls[c].pc \in {"idle", "running", "settled", "responded"}
    /\ (HandlerThrew(c) /\ calls[c].pc = "responded") =>
         /\ Len(calls[c].responses) = 1
         /\ ResponseOf(c).isError = TRUE
         /\ Len(ResponseOf(c).content) = 1
         /\ InstanceOfError(calls[c].promise.reason) =>
              Contains(TextOf(ResponseOf(c)), calls[c].promise.reason.message)
    /\ (calls[c].afterThrow /\ calls[c].pc = "responded") =>
         Len(calls[c].responses) = 1

\* C4, for every thrown value but a ZodError.
C4_ExceptZodError ==
  \A c \in CallIds :
    /\ calls[c].pc \in {"idle", "running", "settled", "responded"}
    /\ (HandlerThrew(c) /\ calls[c].pc = "responded") =>
         /\ Len(calls[c].responses) = 1
         /\ ResponseOf(c).isError = TRUE
         /\ Len(ResponseOf(c).content) = 1
         /\ calls[c].promise.reason.is = "Error" =>
              Contains(TextOf(ResponseOf(c)), calls[c].promise.reason.message)
    /\ (calls[c].afterThrow /\ calls[c].pc = "responded") =>
         Len(calls[c].responses) = 1

\* A call whose handler threw a value that is no Error object.
ThrewNoError(c) ==
  /\ HandlerThrew(c)
  /\ calls[c].pc = "responded"
  /\ ~InstanceOfError(calls[c].promise.reason)

\* C5, as the specification states it: when the handler throws a value that
\* carries no message, the text of the answer is a generic one and no
\* rendering of the thrown value.
C5_GenericFallback ==
  \A c \in CallIds :
    ThrewNoError(c) =>
      ~Contains(TextOf(ResponseOf(c)), StringOf(calls[c].promise.reason.value))

\* C5, amended: when the handler throws a value that is no Error object, the
\* answer is isError true with the single text "Error executing tool: "
\* followed by the string rendering of the thrown value.
C5_RendersThrownValue ==
  \A c \in CallIds :
    ThrewNoError(c) =>
      calls[c].responses =
        <<[content |->
             <<[type |-> "text",
                text |-> <<"Error executing tool: ">>
                         \o StringOf(calls[c].promise.reason.value)]>>,
           isError |-> TRUE]>>

\* C5 witness: a handler threw the string "boom" and the call was answered.
C5_Witness ==
  \E c \in CallIds :
    /\ ThrewNoError(c)
    /\ calls[c].promise.reason.value = Str("boom")

\* A call whose handler returned a result and that was answered.
Returned(c) == calls[c].pc = "responded" /\ calls[c].promise.state = "fulfilled"

\* C6: when a handler returns normally the answer carries the handler's
\* content sequence and its isError flag: isError true passes through with the
\* content unchanged, and a result that sets no isError is answered with
\* isError false.
C6_ResultPassedThrough ==
  \A c \in CallIds :
    Returned(c) =>
      /\ Len(calls[c].responses) = 1
      /\ ResponseOf(c).content = calls[c].promise.value.content
      /\ DOMAIN ResponseOf(c) = {"content", "isError"}
      /\ ("isError" \in DOMAIN calls[c].promise.value) =>
           ResponseOf(c).isError = calls[c].promise.value.isError
      /\ ("isError" \notin DOMAIN calls[c].promise.value) =>
           ResponseOf(c).isError = FALSE

\* C6 witness: one handler returned a result with isError true, another a
\* result that sets no isError, and both calls were answered.
C6_Witness ==
  \E c, d \in CallIds :
    /\ Returned(c) /\ "isError" \in DOMAIN calls[c].promise.value
    /\ calls[c].promise.value.isError = TRUE
    /\ ResponseOf(c).isError = TRUE
    /\ Returned(d) /\ "isError" \notin DOMAIN calls[d].promise.value
    /\ ResponseOf(d).isError = FALSE

\* C7: every answer with isError false has a non-empty content sequence, for
\* every registered tool and every outcome of its external calls.
C7_SuccessHasContent ==
  \A c \in CallIds :
    \A i \in 1..Len(calls[c].responses) :
      calls[c].responses[i].isError = FALSE =>
        Len(calls[c].responses[i].content) > 0

\* C7 witness: a search that found nothing and a bulk insert that succeeded
\* were answered with isError false.
C7_Witness ==
  \E c, d \in CallIds :
    /\ Returned(c) /\ calls[c].name = "non_code_web_search"
    /\ ResponseOf(c).isError = FALSE
    /\ TextOf(ResponseOf(c))[1] = "No search results found for \""
    /\ Returned(d) /\ calls[d].name = "supabase_bulk"
    /\ ResponseOf(d).isError = FALSE

\* The fields of an object schema that have no default and are not optional.
FieldsWithoutDefault(schema) ==
  {key \in DOMAIN schema.shape :
     schema.shape[key].typeName \notin {"ZodOptional", "ZodDefault"}}

\* The elements of a sequence.
Range(seq) == {seq[i] : i \in 1..Len(seq)}

\* C8: in the tool listing, the required set of each tool's inputSchema holds
\* exactly the fields that have no default and are not optional; a field
\* declared with a default value (the search tool's num) or as optional is
\* never in required.
C8_RequiredExact ==
  \A l \in 1..Len(lists) :
    /\ "tools" \in DOMAIN lists[l].response
    /\ \A i \in 1..Len(tools) :
         tools[i].inputSchema.typeName = "ZodObject" =>
           Range(lists[l].response.tools[i].inputSchema.required)
             = FieldsWithoutDefault(tools[i].inputSchema)

\* The entry of a flat description: a name, a description and an object schema
\* whose properties are {type, description} pairs of strings.
IsFlatEntry(entry) ==
  /\ DOMAIN entry = {"name", "description", "inputSchema"}
  /\ DOMAIN entry.inputSchema = {"type", "properties", "required"}
  /\ entry.inputSchema.type = "object"
  /\ \A key \in DOMAIN entry.inputSchema.properties :
       /\ DOMAIN entry.inputSchema.properties[key] = {"type", "description"}
       /\ entry.inputSchema.properties[key].type = "string"
  /\ Range(entry.inputSchema.required) \subseteq DOMAIN entry.inputSchema.properties

\* The entries of a list response but those named name.
EntriesBut(entries, name) == SelectSeq(entries, LAMBDA e : e.name # name)

C10_ListStable ==
  /\ tools = ToolRegistry
  /\ \A l \in 1..Len(lists) :
       /\ "tools" \in DOMAIN lists[l].response
       /\ lists[l].response = lists[1].response
       /\ Len(lists[l].response.tools) = Len(tools)
       /\ \A i \in 1..Len(tools) :
            /\ lists[l].response.tools[i].name = tools[i].name
            /\ lists[l].response.tools[i].description = tools[i].description

\* C10 witness: two list requests were answered, the first before any call
\* was answered and the second after both calls were, one call having run its
\* handler.
C10_Witness ==
  /\ Len(lists) = 2
  /\ lists[1].responded = 0
  /\ lists[2].responded = 2
  /\ \E c \in CallIds : calls[c].invoked

\* The names of the example tools the README lists as available.
ExampleToolNames == {"calculate", "echo"}

\* C11: the server's available tools include calculate and echo: each list
\* response has an entry for both, and a call that names either is resolved to
\* a tool definition and is not answered with the unknown-tool result.
C11_ExampleToolsAvailable ==
  /\ \A l \in 1..Len(lists) :
       \A name \in ExampleToolNames :
         \E i \in 1..Len(lists[l].response.tools) :
           lists[l].response.tools[i].name = name
  /\ \A c \in CallIds :
       (calls[c].pc = "responded" /\ calls[c].name \in ExampleToolNames) =>
         /\ calls[c].tool # 0
         /\ ResponseOf(c) # UnknownToolResponse(calls[c].name)

(***************************************************************************)
(* The calculator, registered (the README's registry) and called.          *)
(***************************************************************************)
Operations == {"add", "subtract", "multiply", "divide"}

Operands == (0 - MaxOperand)..MaxOperand

\* The calls of calculate: every operation over the operands, and the
\* arguments of the scenarios.
CalculateRequests ==
  {[name |-> "calculate",
    arguments |-> Obj([operation |-> Str(op), a |-> Num(a), b |-> Num(b)])] :
     op \in Operations, a \in Operands, b \in Operands}
  \cup {[name |-> "calculate", arguments |-> arguments] :
          arguments \in ArgumentsFor("calculate")}

CallCalculate(c) == CallToolOf(c, CalculateRequests)

NextCalculate ==
  \/ \E c \in CallIds : CallCalculate(c)
  \/ \E c \in CallIds : DispatcherResume(c)

SpecCalculate == InitAny /\ [][NextCalculate]_vars

RECURSIVE Concat(_)
\* The string a text stands for: its pieces, concatenated.
Concat(text) == IF text = <<>> THEN "" ELSE Head(text) \o Concat(Tail(text))

\* An answered call of calculate whose arguments the schema accepted.
Calculated(c) ==
  /\ calls[c].pc = "responded"
  /\ calls[c].name = "calculate"
  /\ calls[c].invoked

\* C12: a call of the registered calculate tool with valid arguments is
\* answered, for divide with b = 0, with isError true and the text "Error:
\* Cannot divide by zero", and for add, subtract and multiply over integers a
\* and b with isError false and the single text "<a> <operation> <b> =
\* <result>", result being the sum, the difference or the product; two calls
\* with the same arguments get the same answer.
C12_Calculate ==
  \A c \in CallIds :
    Calculated(c) =>
      LET operation == Get(calls[c].arguments, "operation").s
          a == Get(calls[c].arguments, "a").n
          b == Get(calls[c].arguments, "b").n
          result == CASE operation = "add" -> a + b
                      [] operation = "subtract" -> a - b
                      [] operation = "multiply" -> a * b
                      [] OTHER -> 0
      IN /\ Len(calls[c].responses) = 1
         /\ Len(ResponseOf(c).content) = 1
         /\ ResponseOf(c).content[1].type = "text"
         /\ (operation = "divide" /\ b = 0) =>
              /\ ResponseOf(c).isError = TRUE
              /\ Concat(TextOf(ResponseOf(c))) = "Error: Cannot divide by zero"
         /\ operation \in {"add", "subtract", "multiply"} =>
              /\ ResponseOf(c).isError = FALSE
              /\ Concat(TextOf(ResponseOf(c)))
                   = ToString(a) \o " " \o operation \o " " \o ToString(b)
                     \o " = " \o ToString(result)
         /\ \A d \in CallIds :
              (Calculated(d) /\ calls[d].arguments = calls[c].arguments) =>
                calls[d].responses = calls[c].responses

\* C12 witness: the scenarios' calls were answered: add 2 3 with "2 add 3 = 5"
\* and divide 10 0 with the division-by-zero error.
C12_Witness ==
  \E c, d \in CallIds :
    /\ Calculated(c)
    /\ calls[c].arguments = Obj([operation |-> Str("add"), a |-> Num(2), b |-> Num(3)])
    /\ ResponseOf(c).isError = FALSE
    /\ Concat(TextOf(ResponseOf(c))) = "2 add 3 = 5"
    /\ Calculated(d)
    /\ calls[d].arguments = Obj([operation |-> Str("divide"), a |-> Num(10), b |-> Num(0)])
    /\ ResponseOf(d).isError = TRUE

(***************************************************************************)
(* A call run alone: the dispatcher and the handler run from the call's    *)
(* name and arguments over the outcomes its external calls had, with no    *)
(* other call in the process.                                              *)
(***************************************************************************)
RECURSIVE ReplayFrom(_, _, _, _)
\* The handler's run continued over the logged outcomes from the i-th on.
ReplayFrom(tool, run, log, i) ==
  IF run.end # "await" \/ i > Len(log) THEN run
  ELSE ReplayFrom(tool, HandlerResume(tool, run.h, log[i].outcome), log, i + 1)

\* Where the call stands when run alone: "unknown", a thrown parse error, or
\* the handler's run.
RunAlone(registry, environment, call) ==
  LET matches == {i \in 1..Len(registry) : registry[i].name = call.name} IN
  IF matches = {} THEN [end |-> "unknown"]
  ELSE
    LET tool == registry[CHOOSE i \in matches : \A j \in matches : i <= j]
        args == SchemaParse(tool.inputSchema, ArgumentsOrEmpty(call.arguments))
    IN IF args.end = "throw" THEN args
       ELSE ReplayFrom(tool, HandlerStart(tool, args.result, environment, Proceed),
                       call.log, 1)

\* The response of a run that ended.
ResponseAlone(call, run) ==
  CASE run.end = "unknown" -> UnknownToolResponse(call.name)
    [] run.end = "throw" -> DispatcherCatch(run.error)
    [] run.end = "return" -> DispatcherReturn(run.result)

\* C13: with several calls in flight and their handlers suspended and resumed
\* in any interleaving, each call is answered exactly once, with the response
\* it gets when run alone from its own name and arguments over the same
\* outcomes of its external calls; a suspended handler holds the state of its
\* own run; and a step of one call changes no other call.
C13_CallsIsolated ==
  /\ [](\A c \in CallIds :
          LET alone == RunAlone(tools, env, calls[c]) IN
          /\ calls[c].pc = "responded" =>
               calls[c].responses = <<ResponseAlone(calls[c], alone)>>
          /\ calls[c].pc = "settled" =>
               /\ calls[c].responses = <<>>
               /\ alone.end \in {"return", "throw"}
               /\ alone.end = "return" => calls[c].promise = Fulfilled(alone.result)
               /\ alone.end = "throw" => calls[c].promise = Rejected(alone.error)
          /\ calls[c].pc = "running" =>
               /\ calls[c].responses = <<>>
               /\ alone = Await(calls[c].h))
  /\ [][\A c, d \in CallIds :
          (c # d /\ calls'[c] # calls[c]) => calls'[d] = calls[d]]_vars

\* C13 witness: two bulk calls with different arguments were in flight at
\* once, and the one that arrived second was answered, after its queries
\* settled, while the first is still suspended on its second query.
C13_Witness ==
  /\ calls[1].pc = "running"
  /\ calls[1].name = "supabase_bulk"
  /\ calls[1].h.at = "join.dst"
  /\ calls[2].pc = "responded"
  /\ calls[2].name = "supabase_bulk"
  /\ calls[2].arguments # calls[1].arguments
  /\ Len(calls[2].log) = 3
  /\ ResponseOf(2).isError = FALSE

(***************************************************************************)
(* A registry in which two tool definitions share a name: the registry is  *)
(* an array that tool definitions are added to, and no name is checked.    *)
(***************************************************************************)
DuplicateRegistry == <<echoTool, [calculatorTool EXCEPT !.name = "echo"]>>

\* The calls of the shared name, with the arguments of either definition, and
\* calls of other names.
DuplicateRequests ==
  {[name |-> "echo", arguments |-> arguments] :
     arguments \in ArgumentsFor("echo") \cup ArgumentsFor("calculate")}
  \cup {[name |-> name, arguments |-> arguments] :
          name \in {"calculate", "does_not_exist"},
          arguments \in ArgumentsFor("does_not_exist")}

InitDuplicate ==
  /\ tools = DuplicateRegistry
  /\ env = EnvironmentNames
  /\ calls = [c \in CallIds |-> NoCall]
  /\ lists = <<>>

CallDuplicate(c) == CallToolOf(c, DuplicateRequests)

NextDuplicate ==
  \/ \E c \in CallIds : CallDuplicate(c)
  \/ \E c \in CallIds : DispatcherResume(c)
  \/ ListTools

SpecDuplicate == InitDuplicate /\ [][NextDuplicate]_vars

\* The places in the registry of the definitions named like call c.
Named(c) == {i \in 1..Len(tools) : tools[i].name = calls[c].name}

\* A call whose name two definitions share.
IsShared(c) == calls[c].pc # "idle" /\ Cardinality(Named(c)) >= 2

\* Call c is validated against the schema of the i-th definition and
\* dispatched to its handler, which returns without suspending.
DispatchedTo(c, i) ==
  LET args == SchemaParse(tools[i].inputSchema, ArgumentsOrEmpty(calls[c].arguments)) IN
  /\ calls[c].validated
  /\ calls[c].invoked = (args.end = "return")
  /\ calls[c].pc = "responded" =>
       calls[c].responses =
         <<IF args.end = "throw" THEN DispatcherCatch(args.error)
           ELSE DispatcherReturn(HandlerStart(tools[i], args.result, env, Proceed).result)>>

\* C14, as the specification states it: when two definitions of the registry
\* share a name the last-registered one wins: a call of the name is validated
\* against and dispatched to the last-registered definition.
C14_LastRegisteredWins ==
  \A c \in CallIds :
    IsShared(c) =>
      DispatchedTo(c, CHOOSE i \in Named(c) : \A j \in Named(c) : j <= i)

\* C14, amended: when two definitions of the registry share a name the
\* first-registered one wins, silently: a call of the name is validated
\* against and dispatched to the first-registered definition, and the tool
\* listing has an entry for each of the two.
C14_FirstRegisteredWins ==
  /\ \A c \in CallIds :
       IsShared(c) =>
         DispatchedTo(c, CHOOSE i \in Named(c) : \A j \in Named(c) : i <= j)
  /\ \A l \in 1..Len(lists) :
       /\ "tools" \in DOMAIN lists[l].response
       /\ Len(lists[l].response.tools) = Len(tools)
       /\ \A i \in 1..Len(tools) : lists[l].response.tools[i].name = tools[i].name

\* C14 witness: with two definitions named echo, a call of echo with a message
\* was answered by the first (the echo handler), a call of echo with the
\* arguments of the second was refused by the schema of the first, and the
\* tools were listed.
C14_Witness ==
  /\ Len(lists) > 0
  /\ \E c, d \in CallIds :
       /\ IsShared(c) /\ calls[c].pc = "responded"
       /\ calls[c].arguments = Obj([message |-> Str("Hello"), transform |-> Str("uppercase")])
       /\ ResponseOf(c) = [content |-> <<TextContent(<<"HELLO">>)>>, isError |-> FALSE]
       /\ IsShared(d) /\ calls[d].pc = "responded"
       /\ calls[d].arguments = Obj([operation |-> Str("add"), a |-> Num(2), b |-> Num(3)])
       /\ ~calls[d].invoked
       /\ ResponseOf(d).isError = TRUE
       /\ TextOf(ResponseOf(d))[1] = "Invalid arguments: "

\* An answer whose text begins with "Invalid arguments:".
SaysInvalidArguments(response) ==
  /\ Len(response.content) > 0
  /\ Len(response.content[1].text) > 0
  /\ response.content[1].text[1] = "Invalid arguments: "

\* C15: an answer whose text begins with "Invalid arguments:" is given only to
\* a call whose handler was never invoked; an error raised inside a handler,
\* whatever its type, is never reported as an argument-validation failure.
C15_InvalidArgumentsOnlyUninvoked ==
  \A c \in CallIds :
    \A i \in 1..Len(calls[c].responses) :
      SaysInvalidArguments(calls[c].responses[i]) =>
        /\ ~calls[c].invoked
        /\ calls[c].threw = "parse"

(***************************************************************************)
(* The bulk tool called with insert_join over every short list of pairs.   *)
(***************************************************************************)
\* The longest list of pairs of a call.
MaxPairs == 3

JoinSources == {"Dune", "Emma"}

JoinDestinations == {"scifi", "poetry"}

PairLists ==
  UNION {[1..n -> {Pair(src, dst) : src \in JoinSources, dst \in JoinDestinations}] :
           n \in 1..MaxPairs}

JoinRequests ==
  {[name |-> "supabase_bulk", arguments |-> ValidJoin(pairs)] : pairs \in PairLists}

InitJoin ==
  /\ tools = ToolRegistry
  /\ env \in Environments
  /\ calls = [c \in CallIds |-> NoCall]
  /\ lists = <<>>

CallJoin == CallToolOf(1, JoinRequests)

NextJoin ==
  \/ CallJoin
  \/ \E c \in CallIds : AwaitSettles(c)
  \/ \E c \in CallIds : DispatcherResume(c)

SpecJoin == InitJoin /\ [][NextJoin]_vars

\* A call of insert_join that reached the handler.
IsJoin(c) ==
  /\ calls[c].name = "supabase_bulk"
  /\ calls[c].invoked
  /\ Get(calls[c].arguments, "command") = Str("insert_join")

\* The queries call c has issued so far, in order: those that settled and the
\* one its handler is suspended on.
Issued(c) ==
  [i \in 1..Len(calls[c].log) |-> calls[c].log[i].at]
  \o (IF calls[c].pc = "running" THEN <<calls[c].h.at>> ELSE <<>>)

\* A query that settled with no error.
QuerySucceeded(entry) ==
  /\ entry.outcome.settles = "resolved"
  /\ entry.outcome.value.error = Null

\* The rows a settled lookup returned that hold the value in the column.
RowsWith(entry, column, value) ==
  LET data == entry.outcome.value.data IN
  IF data.t # "array" THEN <<>>
  ELSE SelectSeq(data.a, LAMBDA row : Get(row, column) = Str(value))

\* The i-th pair of call c resolved on the source side, on the destination side.
SrcFound(c, i) ==
  RowsWith(calls[c].log[1], Get(Get(calls[c].arguments, "src"), "column").s,
           Get(Get(calls[c].arguments, "pairs").a[i], "src").s) # <<>>

DstFound(c, i) ==
  RowsWith(calls[c].log[2], Get(Get(calls[c].arguments, "dst"), "column").s,
           Get(Get(calls[c].arguments, "pairs").a[i], "dst").s) # <<>>

\* Both lookups of call c settled with no error.
LookupsSucceeded(c) ==
  /\ Len(calls[c].log) >= 2
  /\ QuerySucceeded(calls[c].log[1])
  /\ QuerySucceeded(calls[c].log[2])

\* The result of the handler of call c is an error result.
ResultIsError(c) ==
  /\ calls[c].pc \in {"settled", "responded"}
  /\ calls[c].promise.state = "fulfilled"
  /\ "isError" \in DOMAIN calls[c].promise.value
  /\ calls[c].promise.value.isError

\* C16: an insert_join call issues the source lookup, then the destination
\* lookup, then the join-table insert, each at most once and each only after
\* the one before settled with no error; the insert only when at least one
\* pair resolved on both sides; with no such pair no insert is issued and the
\* result is an error.
C16_InsertAfterLookups ==
  \A c \in CallIds :
    IsJoin(c) =>
      LET pairs == Get(calls[c].arguments, "pairs").a
          issued == Issued(c)
      IN /\ Len(issued) <= 3
         /\ issued = SubSeq(<<"join.src", "join.dst", "join.insert">>, 1, Len(issued))
         /\ \A i \in 2..Len(issued) : QuerySucceeded(calls[c].log[i - 1])
         /\ Len(issued) = 3 => \E i \in 1..Len(pairs) : SrcFound(c, i) /\ DstFound(c, i)
         /\ (LookupsSucceeded(c) /\ \A i \in 1..Len(pairs) : ~(SrcFound(c, i) /\ DstFound(c, i)))
              => (Len(issued) = 2 /\ ResultIsError(c))
         /\ (calls[c].pc # "running" /\ Len(issued) < 3) => ResultIsError(c)

\* C16 witness: an insert_join call was answered after its three queries
\* settled with no error, one of its two pairs having resolved on no side.
C16_Witness ==
  \E c \in CallIds :
    /\ IsJoin(c)
    /\ calls[c].pc = "responded"
    /\ Len(calls[c].log) = 3
    /\ \A i \in 1..3 : QuerySucceeded(calls[c].log[i])
    /\ Len(Get(calls[c].arguments, "pairs").a) = 2
    /\ ~SrcFound(c, 2) /\ ~DstFound(c, 2)
    /\ ResponseOf(c).isError = FALSE

\* The places of the pairs of call c that resolved on both sides, and of those
\* that did not, in input order.
ResolvedPairs(c) ==
  SelectSeq([i \in 1..Len(Get(calls[c].arguments, "pairs").a) |-> i],
            LAMBDA i : SrcFound(c, i) /\ DstFound(c, i))

MissingPairs(c) ==
  SelectSeq([i \in 1..Len(Get(calls[c].arguments, "pairs").a) |-> i],
            LAMBDA i : ~(SrcFound(c, i) /\ DstFound(c, i)))

\* The id of the row a lookup map holds for a value: that of the last row.
IdOf(entry, column, value) ==
  LET rows == RowsWith(entry, column, value) IN Get(rows[Len(rows)], "id")

\* The join record of the i-th pair of call c.
JoinRecordOf(c, i) ==
  LET args == calls[c].arguments
      pair == Get(args, "pairs").a[i]
  IN Obj((Get(Get(args, "join"), "src").s :>
            IdOf(calls[c].log[1], Get(Get(args, "src"), "column").s, Get(pair, "src").s))
         @@ (Get(Get(args, "join"), "dst").s :>
               IdOf(calls[c].log[2], Get(Get(args, "dst"), "column").s, Get(pair, "dst").s)))

\* The one message of the i-th pair of call c when it did not resolve: of the
\* source when the source is missing, else of the destination.
MissingMessageOf(c, i) ==
  LET args == calls[c].arguments
      pair == Get(args, "pairs").a[i]
  IN IF ~SrcFound(c, i)
     THEN <<"Source \"", Get(pair, "src").s, "\" not found in ",
            Get(Get(args, "src"), "table").s, ".", Get(Get(args, "src"), "column").s>>
     ELSE <<"Destination \"", Get(pair, "dst").s, "\" not found in ",
            Get(Get(args, "dst"), "table").s, ".", Get(Get(args, "dst"), "column").s>>

\* C17: in an insert_join call whose two lookups succeeded every pair is
\* accounted for exactly once: the join records are those of the pairs that
\* resolved on both sides, in input order, the missing-lookup messages are one
\* per other pair, in input order, a pair missing on the source side giving
\* the source message only; their numbers add up to the number of pairs; and
\* the messages are what the result reports.
C17_PairsAccounted ==
  \A c \in CallIds :
    (IsJoin(c) /\ LookupsSucceeded(c)) =>
      LET pairs == Get(calls[c].arguments, "pairs").a
          records == [k \in 1..Len(ResolvedPairs(c)) |-> JoinRecordOf(c, ResolvedPairs(c)[k])]
          messages == [k \in 1..Len(MissingPairs(c)) |-> MissingMessageOf(c, MissingPairs(c)[k])]
      IN /\ calls[c].pc = "running" =>
              /\ calls[c].h.at = "join.insert"
              /\ calls[c].h.joinRecords = records
              /\ calls[c].h.missingLookups = messages
              /\ Len(calls[c].h.joinRecords) + Len(calls[c].h.missingLookups) = Len(pairs)
         /\ (calls[c].pc # "running" /\ Len(calls[c].log) = 2) =>
              /\ records = <<>>
              /\ Len(messages) = Len(pairs)
              /\ calls[c].promise =
                   Fulfilled(ErrorResult(
                     <<"Error: ", "No valid pairs to insert. Missing lookups:\n">>
                     \o Join(messages, "\n")))
         /\ (Len(calls[c].log) = 3 /\ QuerySucceeded(calls[c].log[3])) =>
              /\ Len(records) > 0
              /\ Contains(calls[c].promise.value.content[1].text,
                          <<"\n\nWarning: ">>) = (messages # <<>>)
              /\ messages # <<>> =>
                   Contains(calls[c].promise.value.content[1].text,
                            <<"\n\nWarning: ", ToString(Len(messages)),
                              " pairs skipped due to missing lookups:\n">>
                            \o Join(messages, "\n"))

\* C17 witness: the handler is suspended on the insert of the one join record
\* of its first pair, the second pair having resolved on no side and being
\* reported by the source message alone.
C17_Witness ==
  \E c \in CallIds :
    /\ IsJoin(c) /\ LookupsSucceeded(c)
    /\ calls[c].pc = "running" /\ calls[c].h.at = "join.insert"
    /\ Len(Get(calls[c].arguments, "pairs").a) = 2
    /\ SrcFound(c, 1) /\ DstFound(c, 1)
    /\ ~SrcFound(c, 2) /\ ~DstFound(c, 2)
    /\ Len(calls[c].h.joinRecords) = 1
    /\ Len(calls[c].h.missingLookups) = 1
    /\ calls[c].h.missingLookups[1][1] = "Source \""

====
